---- MODULE Spec2Model ----
(***************************************************************************)
(* A model of gemini.py, the crawler that archives a forum snapshot into   *)
(* a tree of text files: scrape_forum_index -> scrape_topic_listing ->     *)
(* scrape_post_content -> make_soup, with resolve_url, sanitize_filename   *)
(* and write_to_file as helpers.  Strings are TLA+ strings (sequences of   *)
(* characters); a site is a function from URLs to parsed pages.            *)
(***************************************************************************)
EXTENDS Integers, Sequences, FiniteSets, TLC

(***************************************************************************)
(* Program constants.                                                      *)
(***************************************************************************)
BASE_URL == "https://web.archive.org/web/20160501142300/http://gmc.yoyogames.com/"
OUTPUT_DIR == "forums"
REQUEST_DELAY_SECONDS == 2
Retries == 3
InitialDelay == 5
MaxNameLen == 100
ArchiveOrigin == "https://web.archive.org"

(***************************************************************************)
(* Bounds of the model.                                                    *)
(***************************************************************************)
\* make_soup calls one run may make (pagination has no bound of its own)
MaxFetch == 9
\* filesystem operations that the environment lets fail in one run
MaxFsFail == 1

(***************************************************************************)
(* String helpers: Python's str methods used by the program.               *)
(***************************************************************************)
CharAt(s, i) == SubSeq(s, i, i)

Rest(s) == SubSeq(s, 2, Len(s))

\* str.startswith
StartsWith(s, p) == Len(s) >= Len(p) /\ SubSeq(s, 1, Len(p)) = p

\* sub in s
Contains(s, sub) ==
    \E i \in 1..(Len(s) - Len(sub) + 1) : SubSeq(s, i, i + Len(sub) - 1) = sub

\* s.find(sub), 0 when absent, else the 1-based index of the first occurrence
Find(s, sub) ==
    IF Contains(s, sub)
    THEN CHOOSE i \in 1..(Len(s) - Len(sub) + 1) :
            /\ SubSeq(s, i, i + Len(sub) - 1) = sub
            /\ \A j \in 1..(i - 1) : SubSeq(s, j, j + Len(sub) - 1) # sub
    ELSE 0

\* s.rfind(sub), 0 when absent
RFind(s, sub) ==
    IF Contains(s, sub)
    THEN CHOOSE i \in 1..(Len(s) - Len(sub) + 1) :
            /\ SubSeq(s, i, i + Len(sub) - 1) = sub
            /\ \A j \in (i + 1)..(Len(s) - Len(sub) + 1) :
                  SubSeq(s, j, j + Len(sub) - 1) # sub
    ELSE 0

IsSpace(c) == c \in {" ", "\t", "\n", "\r"}

IsDigit(c) == c \in {"0", "1", "2", "3", "4", "5", "6", "7", "8", "9"}

\* \w of the re module, over the characters the fixtures use
IsWord(c) == ~IsSpace(c) /\ c \notin {"-", "|", "/", "\\", "*", "?", ":", "\"",
                                      "<", ">", "#", ".", ",", "=", "&", ""}

RECURSIVE LStrip(_)
LStrip(s) == IF s # "" /\ IsSpace(CharAt(s, 1)) THEN LStrip(Rest(s)) ELSE s

RECURSIVE RStrip(_)
RStrip(s) ==
    IF s # "" /\ IsSpace(CharAt(s, Len(s)))
    THEN RStrip(SubSeq(s, 1, Len(s) - 1))
    ELSE s

\* str.strip()
Strip(s) == RStrip(LStrip(s))

\* sep.join(parts)
RECURSIVE Join(_, _)
Join(sep, parts) ==
    IF parts = <<>> THEN ""
    ELSE IF Len(parts) = 1 THEN parts[1]
    ELSE parts[1] \o sep \o Join(sep, Tail(parts))

(***************************************************************************)
(* resolve_url                                                             *)
(***************************************************************************)
\* urllib.parse.urljoin for a base "scheme://host/path[?query]" and an href
\* without scheme, fragment, parameters or dot segments: the empty href,
\* a query-only href, an absolute path, or a relative path.
SchemeEnd(base) == Find(base, "://") + 2

\* index of the "/" that starts the path of base
PathStart(base) ==
    SchemeEnd(base) + Find(SubSeq(base, SchemeEnd(base) + 1, Len(base)), "/")

NoQuery(u) == IF Contains(u, "?") THEN SubSeq(u, 1, Find(u, "?") - 1) ELSE u

\* the "/"-separated pieces of s
RECURSIVE SplitSlash(_)
SplitSlash(s) ==
    IF Contains(s, "/")
    THEN <<SubSeq(s, 1, Find(s, "/") - 1)>>
            \o SplitSlash(SubSeq(s, Find(s, "/") + 1, Len(s)))
    ELSE <<s>>

\* filter(None, segments)
RECURSIVE DropEmpty(_)
DropEmpty(segs) ==
    IF segs = <<>> THEN <<>>
    ELSE IF Head(segs) = "" THEN DropEmpty(Tail(segs))
    ELSE <<Head(segs)>> \o DropEmpty(Tail(segs))

urljoin(base, href) ==
    IF href = "" THEN base
    ELSE IF StartsWith(href, "?") THEN NoQuery(base) \o href
    ELSE IF StartsWith(href, "/") THEN SubSeq(base, 1, PathStart(base) - 1) \o href
    ELSE LET bpath == SubSeq(NoQuery(base), PathStart(base), Len(NoQuery(base)))
             bsegs == SplitSlash(bpath)
             hq    == IF Contains(href, "?")
                      THEN SubSeq(href, Find(href, "?"), Len(href)) ELSE ""
             segs  == SubSeq(bsegs, 1, Len(bsegs) - 1) \o SplitSlash(NoQuery(href))
             mid   == DropEmpty(SubSeq(segs, 2, Len(segs) - 1))
         IN  SubSeq(base, 1, PathStart(base) - 1)
                \o Join("/", <<segs[1]>> \o mid \o <<segs[Len(segs)]>>) \o hq

\* as resolve_url, but without the rule for archive-absolute paths
resolve_url_NoArchiveRule(base, href) ==
    IF StartsWith(href, "http") THEN href
    ELSE urljoin(base, href)

\* the three rules of resolve_url, in the order of the code
resolve_url(base, href) ==
    IF StartsWith(href, "http") THEN href
    ELSE IF StartsWith(href, "/web/") THEN ArchiveOrigin \o href
    ELSE urljoin(base, href)

(***************************************************************************)
(* sanitize_filename                                                       *)
(***************************************************************************)
InvalidChars == {"\\", "/", "*", "?", ":", "\"", "<", ">", "|"}

\* re.sub(r'[\\/*?:"<>|]', "_", name): character by character, the string
\* split in halves
RECURSIVE ReplaceInvalid(_)
ReplaceInvalid(s) ==
    IF Len(s) <= 1 THEN (IF s \in InvalidChars THEN "_" ELSE s)
    ELSE ReplaceInvalid(SubSeq(s, 1, Len(s) \div 2))
            \o ReplaceInvalid(SubSeq(s, Len(s) \div 2 + 1, Len(s)))

IsSep(c) == IsSpace(c) \/ c = "_"

\* what the characters lo..hi of s become when every maximal run of
\* whitespace and underscores is replaced by one underscore: the first
\* character of a run gives the underscore, the others nothing
RECURSIVE CollapseRange(_, _, _)
CollapseRange(s, lo, hi) ==
    IF lo > hi THEN ""
    ELSE IF lo = hi
         THEN (IF ~IsSep(CharAt(s, lo)) THEN CharAt(s, lo)
               ELSE IF lo > 1 /\ IsSep(CharAt(s, lo - 1)) THEN ""
               ELSE "_")
    ELSE CollapseRange(s, lo, (lo + hi) \div 2)
            \o CollapseRange(s, (lo + hi) \div 2 + 1, hi)

\* re.sub(r'[\s_]+', '_', name)
CollapseSeps(s) == CollapseRange(s, 1, Len(s))

\* as sanitize_filename, but the result is not truncated
sanitize_filename_Untruncated(name) == CollapseSeps(ReplaceInvalid(Strip(name)))

\* as sanitize_filename, but the runs are collapsed before the invalid
\* characters are replaced
sanitize_filename_CollapseFirst(name) ==
    SubSeq(ReplaceInvalid(CollapseSeps(Strip(name))), 1,
           IF Len(ReplaceInvalid(CollapseSeps(Strip(name)))) < MaxNameLen
           THEN Len(ReplaceInvalid(CollapseSeps(Strip(name)))) ELSE MaxNameLen)

sanitize_filename(name) ==
    SubSeq(CollapseSeps(ReplaceInvalid(Strip(name))), 1,
           IF Len(CollapseSeps(ReplaceInvalid(Strip(name)))) < MaxNameLen
           THEN Len(CollapseSeps(ReplaceInvalid(Strip(name)))) ELSE MaxNameLen)

\* os.path.join(a, b) for a relative b
PathJoin(a, b) ==
    IF StartsWith(b, "/") THEN b
    ELSE IF a = "" \/ CharAt(a, Len(a)) = "/" THEN a \o b
    ELSE a \o "/" \o b

\* os.path.dirname
DirName(p) == IF Contains(p, "/") THEN SubSeq(p, 1, RFind(p, "/") - 1) ELSE ""

(***************************************************************************)
(* Parsed pages.  A page is what BeautifulSoup's selectors see of it:      *)
(*   tables : the table.ipb_table elements, each the sequence of its tr    *)
(*   posts  : the div.post.entry-content elements, in document order       *)
(*   next   : the first a[rel="next"] element                              *)
(* An anchor is [text, href]; a row carries its class, the anchors of its  *)
(* td h4, the anchors of the span.desc of that td, the anchors of its      *)
(* td.col_f_topic and the text of its td.col_f_lastact.                    *)
(***************************************************************************)
A(text, href) == [text |-> text, href |-> href]

NoNext     == [tag |-> FALSE, hasHref |-> FALSE, href |-> ""]
NextNoHref == [tag |-> TRUE,  hasHref |-> FALSE, href |-> ""]
NextTo(h)  == [tag |-> TRUE,  hasHref |-> TRUE,  href |-> h]

Row(cls, h4, hasDesc, desc, topic, hasLastact, lastact) ==
    [cls |-> cls, h4 |-> h4, hasDesc |-> hasDesc, desc |-> desc,
     topic |-> topic, hasLastact |-> hasLastact, lastact |-> lastact]

HeaderRow == Row("header", <<>>, FALSE, <<>>, <<>>, FALSE, "")
ForumRow(h4, desc) == Row("", h4, TRUE, desc, <<>>, FALSE, "")
ForumRowNoDesc(h4) == Row("", h4, FALSE, <<>>, <<>>, FALSE, "")
TopicRow(topic, lastact) == Row("row1", <<>>, FALSE, <<>>, topic, TRUE, lastact)
TopicRowNoDate(topic) == Row("row2", <<>>, FALSE, <<>>, topic, FALSE, "")

\* a post block: is it inside a div.post_wrap, the h3.author and
\* p.posted_info texts of that wrap, the child nodes of the block and of the
\* wrap's div.signature, each node [kind, text]
Post(wrap, hasAuthor, author, hasPosted, posted, body, hasSig, sig) ==
    [wrap |-> wrap, hasAuthor |-> hasAuthor, author |-> author,
     hasPosted |-> hasPosted, posted |-> posted, body |-> body,
     hasSig |-> hasSig, sig |-> sig]

N(kind, text) == [kind |-> kind, text |-> text]

Page(tables, posts, next) == [tables |-> tables, posts |-> posts, next |-> next]

IndexPage(rows) == Page(<<rows>>, <<>>, NoNext)
ListingPage(rows, next) == Page(<<<<HeaderRow>> \o rows>>, <<>>, next)
TopicPage(posts, next) == Page(<<>>, posts, next)
EmptyPage == Page(<<>>, <<>>, NoNext)

RECURSIVE Flatten(_)
Flatten(seqs) == IF seqs = <<>> THEN <<>> ELSE Head(seqs) \o Flatten(Tail(seqs))

\* select('a[href*="<part>"]') over the anchors of a region
RECURSIVE SelectLinks(_, _)
SelectLinks(anchors, part) ==
    IF anchors = <<>> THEN <<>>
    ELSE (IF Contains(Head(anchors).href, part) THEN <<Head(anchors)>> ELSE <<>>)
            \o SelectLinks(Tail(anchors), part)

\* select_one: the first element selected, if any
First(selected) == IF selected = <<>> THEN <<>> ELSE <<selected[1]>>

\* tag.get_text(sep, strip=True): the stripped non-empty strings, joined
RECURSIVE StrippedTexts(_)
StrippedTexts(nodes) ==
    IF nodes = <<>> THEN <<>>
    ELSE (IF Strip(Head(nodes).text) = "" THEN <<>>
          ELSE <<Strip(Head(nodes).text)>>) \o StrippedTexts(Tail(nodes))

GetText(sep, nodes) == Join(sep, StrippedTexts(nodes))

\* the nodes left once those of the given kinds are decomposed
RECURSIVE Decompose(_, _)
Decompose(nodes, kinds) ==
    IF nodes = <<>> THEN <<>>
    ELSE (IF Head(nodes).kind \in kinds THEN <<>> ELSE <<Head(nodes)>>)
            \o Decompose(Tail(nodes), kinds)

\* re.sub(r'Posted |#\d+', '', s)
RECURSIVE SkipDigits(_)
SkipDigits(s) == IF s # "" /\ IsDigit(CharAt(s, 1)) THEN SkipDigits(Rest(s)) ELSE s

RECURSIVE CleanDate(_)
CleanDate(s) ==
    IF s = "" THEN ""
    ELSE IF StartsWith(s, "Posted ") THEN CleanDate(SubSeq(s, 8, Len(s)))
    ELSE IF StartsWith(s, "#") /\ Len(s) >= 2 /\ IsDigit(CharAt(s, 2))
         THEN CleanDate(SkipDigits(Rest(s)))
    ELSE CharAt(s, 1) \o CleanDate(Rest(s))

Rule80 == "================================================================================"

\* the strings one post block appends to all_posts_text
PostText(p) ==
    IF ~p.wrap THEN <<>>
    ELSE LET username == IF p.hasAuthor THEN Strip(p.author) ELSE "Unknown User"
             post_date == Strip(CleanDate(IF p.hasPosted THEN Strip(p.posted)
                                          ELSE "Unknown Date"))
             post_content == GetText("\n", Decompose(p.body, {"quote", "code", "img"}))
             signature_content ==
                 IF p.hasSig THEN Strip(GetText("\n", Decompose(p.sig, {"img"})))
                 ELSE ""
         IN  <<"--- User: " \o username \o " | Date: " \o post_date
                  \o " ---\n\n" \o post_content>>
             \o (IF signature_content # ""
                 THEN <<"\n--- Signature ---\n" \o signature_content>> ELSE <<>>)
             \o <<"\n" \o Rule80 \o "\n">>

\* everything one page appends to all_posts_text
RECURSIVE PagePostTexts(_)
PagePostTexts(posts) ==
    IF posts = <<>> THEN <<>>
    ELSE PostText(Head(posts)) \o PagePostTexts(Tail(posts))

\* re.search(r'(\d{1,2}\s\w+\s\d{4})', s): the leftmost match, "" when none
RECURSIVE WordRun(_)
WordRun(s) == IF s # "" /\ IsWord(CharAt(s, 1)) THEN 1 + WordRun(Rest(s)) ELSE 0

AllDigits(s) == \A i \in 1..Len(s) : IsDigit(CharAt(s, i))

\* length of the match that starts at i with d leading digits, 0 when none
DateLenAt(s, i, d) ==
    LET w == WordRun(SubSeq(s, i + d + 1, Len(s)))
        n == d + 1 + w + 1 + 4
    IN  IF /\ i + n - 1 <= Len(s)
           /\ AllDigits(SubSeq(s, i, i + d - 1))
           /\ IsSpace(CharAt(s, i + d))
           /\ w >= 1
           /\ IsSpace(CharAt(s, i + d + 1 + w))
           /\ AllDigits(SubSeq(s, i + d + w + 2, i + n - 1))
        THEN n ELSE 0

DateAt(s, i) ==
    IF DateLenAt(s, i, 2) > 0 THEN SubSeq(s, i, i + DateLenAt(s, i, 2) - 1)
    ELSE IF DateLenAt(s, i, 1) > 0 THEN SubSeq(s, i, i + DateLenAt(s, i, 1) - 1)
    ELSE ""

DateSearch(s) ==
    IF \E i \in 1..Len(s) : DateAt(s, i) # ""
    THEN DateAt(s, CHOOSE i \in 1..Len(s) :
                      DateAt(s, i) # "" /\ \A j \in 1..(i - 1) : DateAt(s, j) = "")
    ELSE ""

\* str.replace(" ", "-")
RECURSIVE Hyphenate(_)
Hyphenate(s) ==
    IF s = "" THEN ""
    ELSE (IF CharAt(s, 1) = " " THEN "-" ELSE CharAt(s, 1)) \o Hyphenate(Rest(s))

\* date_prefix of a topic row
DatePrefix(row) ==
    LET last_post_date_str == IF row.hasLastact THEN Strip(row.lastact) ELSE "nodate"
    IN  IF DateSearch(last_post_date_str) # ""
        THEN Hyphenate(DateSearch(last_post_date_str))
        ELSE "unknown_date"

(***************************************************************************)
(* The filesystem: the regular files with their contents, the directories, *)
(* and how many operations the environment has let fail so far.            *)
(***************************************************************************)
RECURSIVE SlashPositions(_, _)
SlashPositions(p, i) ==
    IF i > Len(p) THEN {}
    ELSE (IF CharAt(p, i) = "/" THEN {i} ELSE {}) \cup SlashPositions(p, i + 1)

\* the directories os.makedirs(d, exist_ok=True) needs to exist afterwards
Ancestors(d) ==
    ({SubSeq(d, 1, i - 1) : i \in SlashPositions(d, 1)} \cup {d}) \ {""}

WriteOutcomes == {"ok", "makedirs_fails", "write_fails"}

\* os.makedirs raises when a component of the path is a regular file
MakedirsOk(f, filepath) == Ancestors(DirName(filepath)) \cap DOMAIN f.files = {}

\* open(filepath, 'w') raises when the path is a directory
OpenOk(f, filepath) == filepath \notin f.dirs

\* does write_to_file leave the content in the file
Written(f, filepath, outcome) ==
    outcome = "ok" /\ MakedirsOk(f, filepath) /\ OpenOk(f, filepath)

\* write_to_file: any OSError is caught, the write is abandoned
write_to_file(f, filepath, content, outcome) ==
    LET made == [f EXCEPT !.dirs = @ \cup Ancestors(DirName(filepath))]
        failed(g) == [g EXCEPT !.fails = @ + 1]
    IN  IF outcome = "makedirs_fails" THEN failed(f)
        ELSE IF ~MakedirsOk(f, filepath) THEN f
        ELSE IF ~OpenOk(f, filepath) THEN made
        ELSE IF outcome = "write_fails"
             THEN failed([made EXCEPT !.files = (filepath :> "") @@ @])
        ELSE [made EXCEPT !.files = (filepath :> content) @@ @]

(***************************************************************************)
(* Sites.                                                                  *)
(***************************************************************************)
IndexURL == BASE_URL \o "index.php"

U(path) == ArchiveOrigin \o path

OnePost(author, body) ==
    Post(TRUE, TRUE, author, TRUE, "Posted 01 May 2016 #1", <<N("text", body)>>,
         FALSE, <<>>)

\* a post block outside any div.post_wrap
LoosePost(body) ==
    Post(FALSE, FALSE, "", FALSE, "", <<N("text", body)>>, FALSE, <<>>)

FullPost ==
    Post(TRUE, FALSE, "", FALSE, "",
         <<N("text", " hi "), N("quote", "old"), N("code", "x=1"), N("img", "")>>,
         TRUE, <<N("img", ""), N("text", "sig")>>)

\* one forum with a sub-forum; a two-page listing; a two-page topic, a
\* one-page topic and a topic without posts
SiteBasic ==
    (IndexURL :> IndexPage(<<
        HeaderRow,
        ForumRow(<<A("General", "/web/f?showforum=1")>>,
                 <<A("about", "/web/about"), A("Sub", "/web/f?showforum=2")>>) >>))
    @@ (U("/web/f?showforum=1") :> ListingPage(<<
        TopicRow(<<A("Hello", "/web/t?showtopic=1")>>, "Today 5 May 2016 by x") >>,
        NextTo("?showforum=1&st=30")))
    @@ (U("/web/f?showforum=1&st=30") :> ListingPage(<<
        TopicRowNoDate(<<A("profile", "/web/user"), A("Bye", "/web/t?showtopic=2")>>) >>,
        NoNext))
    @@ (U("/web/t?showtopic=1") :> TopicPage(
        <<OnePost("ann", "one"), LoosePost("stray")>>, NextTo("?showtopic=1&st=20")))
    @@ (U("/web/t?showtopic=1&st=20") :> TopicPage(<<FullPost>>, NoNext))
    @@ (U("/web/t?showtopic=2") :> TopicPage(<<OnePost("bob", "two")>>, NoNext))
    @@ (U("/web/f?showforum=2") :> ListingPage(<<
        TopicRow(<<A("profile", "/web/user")>>, "1 May 2016"),
        TopicRow(<<A("Void", "/web/t?showtopic=3")>>, "12 June 2015") >>,
        NoNext))
    @@ (U("/web/t?showtopic=3") :> TopicPage(<<LoosePost("stray")>>, NoNext))

\* one forum; a three-page topic and a one-page topic whose titles sanitize
\* to the same name; next links with an empty href
SiteTopics ==
    (IndexURL :> IndexPage(<<ForumRowNoDesc(<<A(" Q/A ", "?showforum=4")>>)>>))
    @@ (IndexURL \o "?showforum=4" :> ListingPage(<<
        TopicRow(<<A("a/b", "/web/t?showtopic=5")>>, "no date"),
        TopicRow(<<A("a?b", "/web/t?showtopic=6")>>, "no date") >>,
        NextTo("")))
    @@ (U("/web/t?showtopic=5") :> TopicPage(
        <<OnePost("ann", "p1a"), OnePost("bob", "p1b")>>, NextTo("?showtopic=5&st=20")))
    @@ (U("/web/t?showtopic=5&st=20") :> TopicPage(
        <<OnePost("cat", "p2")>>, NextTo("/web/t?showtopic=5&st=40")))
    @@ (U("/web/t?showtopic=5&st=40") :> TopicPage(<<OnePost("dan", "p3")>>, NoNext))
    @@ (U("/web/t?showtopic=6") :> TopicPage(<<OnePost("eve", "q1")>>, NextTo("")))

\* next links without an href attribute, on a topic page and on a listing page
SiteNoHref ==
    (IndexURL :> IndexPage(<<
        ForumRow(<<A("F", "/web/f?showforum=1")>>, <<A("S", "/web/f?showforum=2")>>) >>))
    @@ (U("/web/f?showforum=1") :> ListingPage(<<
        TopicRow(<<A("T1", "/web/t?showtopic=1")>>, "1 May 2016"),
        TopicRow(<<A("T2", "/web/t?showtopic=2")>>, "2 May 2016") >>,
        NextNoHref))
    @@ (U("/web/t?showtopic=1") :> TopicPage(<<OnePost("ann", "one")>>, NextNoHref))
    @@ (U("/web/t?showtopic=2") :> TopicPage(<<OnePost("bob", "two")>>, NoNext))
    @@ (U("/web/f?showforum=2") :> ListingPage(<<>>, NoNext))

\* forum links that repeat: a URL that is a substring of a recorded one, the
\* URL of a recorded sub-forum, sub-forum links that repeat, a nameless one
SiteRepeats ==
    (IndexURL :> IndexPage(<<
        ForumRow(<<A("Alpha", "/web/f?showforum=12")>>,
                 <<A("", "/web/f?showforum=7"), A("Beta", "/web/f?showforum=3")>>),
        ForumRow(<<A("One", "/web/f?showforum=1")>>,
                 <<A("Gamma", "/web/f?showforum=5")>>),
        ForumRowNoDesc(<<A("Beta", "/web/f?showforum=3")>>),
        ForumRow(<<A("Delta", "/web/f?showforum=4")>>,
                 <<A("Alpha", "/web/f?showforum=12"), A("Eps", "/web/f?showforum=6"),
                   A("Eps", "/web/f?showforum=6")>>) >>))
    @@ (U("/web/f?showforum=12") :> ListingPage(<<>>, NoNext))
    @@ (U("/web/f?showforum=4") :> ListingPage(<<>>, NoNext))
    @@ (U("/web/f?showforum=6") :> ListingPage(<<
        TopicRow(<<A("T", "/web/t?showtopic=8")>>, "3 May 2016") >>, NoNext))
    @@ (U("/web/t?showtopic=8") :> TopicPage(<<OnePost("ann", "one")>>, NoNext))

\* next links that lead back to the page they are on
SiteCycle ==
    (IndexURL :> IndexPage(<<ForumRowNoDesc(<<A("Loop", "/web/f?showforum=9")>>)>>))
    @@ (U("/web/f?showforum=9") :> ListingPage(<<
        TopicRow(<<A("Again", "/web/t?showtopic=9")>>, "4 May 2016") >>,
        NextTo("?showforum=9")))
    @@ (U("/web/t?showtopic=9") :> TopicPage(
        <<OnePost("ann", "one")>>, NextTo("?showtopic=9")))

\* forums whose names sanitize to the same directory name, and a forum link
\* without text
SiteDirs ==
    (IndexURL :> IndexPage(<<
        ForumRowNoDesc(<<A("a/b", "/web/f?showforum=21")>>),
        ForumRowNoDesc(<<A("a?b", "/web/f?showforum=22")>>),
        ForumRowNoDesc(<<A("", "/web/f?showforum=23")>>) >>))
    @@ (U("/web/f?showforum=21") :> ListingPage(<<
        TopicRow(<<A("Hi", "/web/t?showtopic=21")>>, "2 May 2016") >>, NoNext))
    @@ (U("/web/t?showtopic=21") :> TopicPage(<<OnePost("ann", "one")>>, NoNext))

Sites == {SiteBasic, SiteTopics, SiteNoHref, SiteRepeats, SiteCycle, SiteDirs}

(***************************************************************************)
(* State.                                                                  *)
(***************************************************************************)
VARIABLES
    site,   \* the pages the archive serves, by URL
    pc,     \* the statement the program is at
    exc,    \* the exception that ended the run, "" when none
    ms,     \* frame of make_soup
    spc,    \* frame of scrape_post_content
    stl,    \* frame of scrape_topic_listing
    sfi,    \* frame of scrape_forum_index, with main's all_forums
    fs,     \* the filesystem
    hist,   \* what the run has done: the make_soup calls with their results,
            \* the write_to_file calls, the scrape_topic_listing calls (each
            \* with the number of writes before it) and the
            \* scrape_post_content calls (each with the number of fetches
            \* before it)
    call    \* a call of resolve_url or sanitize_filename on its own: the
            \* function, its arguments, and the values returned so far

vars == <<site, pc, exc, ms, spc, stl, sfi, fs, hist, call>>

NoSoup == [ok |-> FALSE, page |-> EmptyPage]

\* no function has been entered, nothing has been fetched or written
FreshFrames ==
    /\ exc = ""
    /\ ms = [url |-> "", attempt |-> 0, delay |-> InitialDelay, ret |-> "",
             result |-> NoSoup, trace |-> <<>>]
    /\ spc = [current_page_url |-> "", all_posts_text |-> <<>>, result |-> ""]
    /\ stl = [current_page_url |-> "", current_path |-> "", topic_listing |-> <<>>,
              soup |-> EmptyPage, topic_rows |-> <<>>, r |-> 1,
              topic_title |-> "", topic_url |-> "", date_prefix |-> ""]
    /\ sfi = [url |-> "", current_path |-> "", rows |-> <<>>, i |-> 1, j |-> 1,
              all_forums_found |-> <<>>, forum_path |-> "", all_forums |-> <<>>]
    /\ fs = [files |-> <<>>, dirs |-> {}, fails |-> 0]
    /\ hist = [fetches |-> <<>>, writes |-> <<>>, crawls |-> <<>>, topics |-> <<>>]

Call(fn, base, arg) ==
    [fn |-> fn, base |-> base, arg |-> arg, returned |-> <<>>]

Init ==
    /\ site \in Sites
    /\ pc = "main"
    /\ FreshFrames
    /\ call = Call("", "", "")

(***************************************************************************)
(* make_soup                                                               *)
(***************************************************************************)
Sleep(n) == [op |-> "sleep", secs |-> n, ok |-> TRUE]
Get(ok) == [op |-> "get", secs |-> 0, ok |-> ok]

\* as CallMakeSoup, but the back-off delay of the previous call is kept
CallMakeSoupKeepsDelay(url, ret) ==
    /\ Len(hist.fetches) < MaxFetch
    /\ ms' = [url |-> url, attempt |-> 0, delay |-> ms.delay, ret |-> ret,
              result |-> NoSoup, trace |-> <<>>]
    /\ pc' = "make_soup"

\* the call make_soup(url); the caller continues at ret
CallMakeSoup(url, ret) ==
    /\ Len(hist.fetches) < MaxFetch
    /\ ms' = [url |-> url, attempt |-> 0, delay |-> InitialDelay, ret |-> ret,
              result |-> NoSoup, trace |-> <<>>]
    /\ pc' = "make_soup"

ReturnSoup(ok) ==
    /\ pc' = ms.ret
    /\ hist' = [hist EXCEPT !.fetches = Append(@, [url |-> ms.url, ok |-> ok])]

\* an exception nothing catches ends the run
Raise(kind) == pc' = "crashed" /\ exc' = kind

\* an attempt whose request succeeds: the parsed page is returned
MakeSoupSuccess ==
    /\ pc = "make_soup"
    /\ ms.attempt < Retries
    /\ ms.url \in DOMAIN site
    /\ ms' = [ms EXCEPT !.result = [ok |-> TRUE, page |-> site[ms.url]],
                        !.trace = @ \o <<Sleep(REQUEST_DELAY_SECONDS), Get(TRUE)>>]
    /\ ReturnSoup(TRUE)
    /\ UNCHANGED <<site, call, exc, spc, stl, sfi, fs>>

\* as MakeSoupRetry, but the request is sent without the politeness delay
MakeSoupRetryNoPause ==
    /\ pc = "make_soup"
    /\ ms.attempt < Retries - 1
    /\ ms' = [ms EXCEPT !.attempt = @ + 1,
                        !.delay = @ * 2,
                        !.trace = @ \o <<Get(FALSE), Sleep(ms.delay)>>]
    /\ UNCHANGED <<site, call, pc, exc, spc, stl, sfi, fs, hist>>

\* an attempt that raises RequestException with attempts left: back off
MakeSoupRetry ==
    /\ pc = "make_soup"
    /\ ms.attempt < Retries - 1
    /\ ms' = [ms EXCEPT !.attempt = @ + 1,
                        !.delay = @ * 2,
                        !.trace = @ \o <<Sleep(REQUEST_DELAY_SECONDS), Get(FALSE),
                                         Sleep(ms.delay)>>]
    /\ UNCHANGED <<site, call, pc, exc, spc, stl, sfi, fs, hist>>

\* as MakeSoupGiveUp, but the last RequestException propagates
MakeSoupGiveUpRaises ==
    /\ pc = "make_soup"
    /\ ms.attempt < Retries
    /\ ~(ms.attempt < Retries - 1)
    /\ ms' = [ms EXCEPT !.trace = @ \o <<Sleep(REQUEST_DELAY_SECONDS), Get(FALSE)>>]
    /\ Raise("RequestException")
    /\ UNCHANGED <<site, call, spc, stl, sfi, fs, hist>>

\* the last attempt raises RequestException: None is returned
MakeSoupGiveUp ==
    /\ pc = "make_soup"
    /\ ms.attempt < Retries
    /\ ~(ms.attempt < Retries - 1)
    /\ ms' = [ms EXCEPT !.result = NoSoup,
                        !.trace = @ \o <<Sleep(REQUEST_DELAY_SECONDS), Get(FALSE)>>]
    /\ ReturnSoup(FALSE)
    /\ UNCHANGED <<site, call, exc, spc, stl, sfi, fs>>

(***************************************************************************)
(* The "Next" page link of both pagination loops.                          *)
(***************************************************************************)
\* next_link['href'] raises KeyError when the a[rel="next"] has no href
NextLinkRaises(page) == page.next.tag /\ ~page.next.hasHref

\* as NextPageUrl, but a next link to a page fetched before is not followed
NextPageUrlUnvisited(current_page_url, page) ==
    IF /\ page.next.tag
       /\ page.next.href # ""
       /\ \A n \in 1..Len(hist.fetches) :
             hist.fetches[n].url # resolve_url(current_page_url, page.next.href)
    THEN resolve_url(current_page_url, page.next.href)
    ELSE ""

\* the new current_page_url, "" standing for None
NextPageUrl(current_page_url, page) ==
    IF page.next.tag /\ page.next.href # ""
    THEN resolve_url(current_page_url, page.next.href)
    ELSE ""

(***************************************************************************)
(* scrape_post_content                                                     *)
(***************************************************************************)
CallScrapePostContent(topic_url) ==
    /\ spc' = [current_page_url |-> topic_url, all_posts_text |-> <<>>, result |-> ""]
    /\ pc' = "spc_loop"

ReturnPostContent(all_posts_text) ==
    /\ spc' = [spc EXCEPT !.all_posts_text = all_posts_text,
                          !.result = Join("\n", all_posts_text)]
    /\ pc' = "stl_post"

\* while current_page_url: soup = make_soup(current_page_url)
SpcFetch ==
    /\ pc = "spc_loop"
    /\ spc.current_page_url # ""
    /\ CallMakeSoup(spc.current_page_url, "spc_soup")
    /\ UNCHANGED <<site, call, exc, spc, stl, sfi, fs, hist>>

\* the loop ends: return "\n".join(all_posts_text)
SpcReturn ==
    /\ pc = "spc_loop"
    /\ spc.current_page_url = ""
    /\ ReturnPostContent(spc.all_posts_text)
    /\ UNCHANGED <<site, call, exc, ms, stl, sfi, fs, hist>>

\* as SpcBreak, but the posts of the pages already processed are dropped
SpcBreakDiscards ==
    /\ pc = "spc_soup"
    /\ ~ms.result.ok
    /\ ReturnPostContent(<<>>)
    /\ UNCHANGED <<site, call, exc, ms, stl, sfi, fs, hist>>

\* if not soup: break
SpcBreak ==
    /\ pc = "spc_soup"
    /\ ~ms.result.ok
    /\ ReturnPostContent(spc.all_posts_text)
    /\ UNCHANGED <<site, call, exc, ms, stl, sfi, fs, hist>>

\* as SpcPage, but the next link is never followed
SpcPageNoPagination ==
    /\ pc = "spc_soup"
    /\ ms.result.ok
    /\ ~NextLinkRaises(ms.result.page)
    /\ spc' = [spc EXCEPT
                 !.all_posts_text = @ \o PagePostTexts(ms.result.page.posts),
                 !.current_page_url = ""]
    /\ pc' = "spc_loop"
    /\ UNCHANGED <<site, call, exc, ms, stl, sfi, fs, hist>>

\* the posts of the page are appended and the next link is followed
SpcPage ==
    /\ pc = "spc_soup"
    /\ ms.result.ok
    /\ ~NextLinkRaises(ms.result.page)
    /\ spc' = [spc EXCEPT
                 !.all_posts_text = @ \o PagePostTexts(ms.result.page.posts),
                 !.current_page_url = NextPageUrl(@, ms.result.page)]
    /\ pc' = "spc_loop"
    /\ UNCHANGED <<site, call, exc, ms, stl, sfi, fs, hist>>

SpcPageRaises ==
    /\ pc = "spc_soup"
    /\ ms.result.ok
    /\ NextLinkRaises(ms.result.page)
    /\ spc' = [spc EXCEPT
                 !.all_posts_text = @ \o PagePostTexts(ms.result.page.posts)]
    /\ Raise("KeyError")
    /\ UNCHANGED <<site, call, ms, stl, sfi, fs, hist>>

(***************************************************************************)
(* scrape_topic_listing                                                    *)
(***************************************************************************)
\* soup.select('table.ipb_table tr[class^="row"]')
RECURSIVE RowsOfClass(_, _)
RowsOfClass(rows, prefix) ==
    IF rows = <<>> THEN <<>>
    ELSE (IF StartsWith(Head(rows).cls, prefix) THEN <<Head(rows)>> ELSE <<>>)
            \o RowsOfClass(Tail(rows), prefix)

TopicRows(page) == RowsOfClass(Flatten(page.tables), "row")

\* as TopicLink, but any anchor of the topic cell is taken for the topic link
TopicLinkAny(row) == First(row.topic)

\* row.select_one('td.col_f_topic a[href*="showtopic="]'), as a sequence of
\* at most one anchor
TopicLink(row) == First(SelectLinks(row.topic, "showtopic="))

TopicFile(current_path, date_prefix, topic_title) ==
    PathJoin(current_path,
             date_prefix \o "-" \o sanitize_filename(topic_title) \o ".txt")

CallScrapeTopicListing(forum_url, current_path) ==
    /\ stl' = [current_page_url |-> forum_url, current_path |-> current_path,
               topic_listing |-> <<>>, soup |-> EmptyPage, topic_rows |-> <<>>,
               r |-> 1, topic_title |-> "", topic_url |-> "", date_prefix |-> ""]
    /\ pc' = "stl_loop"
    /\ hist' = [hist EXCEPT
                  !.crawls = Append(@, [url |-> forum_url, path |-> current_path,
                                        at |-> Len(hist.writes)])]

\* the environment may let a write fail while it has failures left
MayHappen(outcome) == outcome = "ok" \/ fs.fails < MaxFsFail

LogWrite(filepath, content, outcome) ==
    [path |-> filepath, content |-> content, by |-> pc,
     done |-> Written(fs, filepath, outcome)]

\* while current_page_url: soup = make_soup(current_page_url)
StlFetch ==
    /\ pc = "stl_loop"
    /\ stl.current_page_url # ""
    /\ CallMakeSoup(stl.current_page_url, "stl_soup")
    /\ UNCHANGED <<site, call, exc, spc, stl, sfi, fs, hist>>

StlLoopEnd ==
    /\ pc = "stl_loop"
    /\ stl.current_page_url = ""
    /\ pc' = "stl_write"
    /\ UNCHANGED <<site, call, exc, ms, spc, stl, sfi, fs, hist>>

\* if not soup: break
StlBreak ==
    /\ pc = "stl_soup"
    /\ ~ms.result.ok
    /\ pc' = "stl_write"
    /\ UNCHANGED <<site, call, exc, ms, spc, stl, sfi, fs, hist>>

StlSoup ==
    /\ pc = "stl_soup"
    /\ ms.result.ok
    /\ stl' = [stl EXCEPT !.soup = ms.result.page,
                          !.topic_rows = TopicRows(ms.result.page),
                          !.r = 1]
    /\ pc' = "stl_row"
    /\ UNCHANGED <<site, call, exc, ms, spc, sfi, fs, hist>>

\* if not topic_link_tag: continue
StlSkipRow ==
    /\ pc = "stl_row"
    /\ stl.r <= Len(stl.topic_rows)
    /\ TopicLink(stl.topic_rows[stl.r]) = <<>>
    /\ stl' = [stl EXCEPT !.r = @ + 1]
    /\ UNCHANGED <<site, call, pc, exc, ms, spc, sfi, fs, hist>>

\* a row with a topic link: post_content = scrape_post_content(topic_url)
StlTopic ==
    /\ pc = "stl_row"
    /\ stl.r <= Len(stl.topic_rows)
    /\ TopicLink(stl.topic_rows[stl.r]) # <<>>
    /\ LET topic_link_tag == TopicLink(stl.topic_rows[stl.r])[1]
           topic_url == resolve_url(stl.current_page_url, topic_link_tag.href)
       IN  /\ stl' = [stl EXCEPT !.topic_title = Strip(topic_link_tag.text),
                                 !.topic_url = topic_url,
                                 !.date_prefix = DatePrefix(stl.topic_rows[stl.r])]
           /\ CallScrapePostContent(topic_url)
           /\ hist' = [hist EXCEPT
                         !.topics = Append(@, [url |-> topic_url,
                                               at |-> Len(hist.fetches)])]
    /\ UNCHANGED <<site, call, exc, ms, sfi, fs>>

\* as StlTopicEmpty, but the listing line is recorded all the same
StlTopicEmptyListed ==
    /\ pc = "stl_post"
    /\ spc.result = ""
    /\ stl' = [stl EXCEPT
                 !.topic_listing = Append(@, stl.topic_title \o " | " \o stl.topic_url),
                 !.r = @ + 1]
    /\ pc' = "stl_row"
    /\ UNCHANGED <<site, call, exc, ms, spc, sfi, fs, hist>>

\* if post_content: is false
StlTopicEmpty ==
    /\ pc = "stl_post"
    /\ spc.result = ""
    /\ stl' = [stl EXCEPT !.r = @ + 1]
    /\ pc' = "stl_row"
    /\ UNCHANGED <<site, call, exc, ms, spc, sfi, fs, hist>>

\* if post_content: the topic file is written and the listing line recorded
StlTopicWrite ==
    /\ pc = "stl_post"
    /\ spc.result # ""
    /\ \E outcome \in WriteOutcomes :
          LET filepath == TopicFile(stl.current_path, stl.date_prefix, stl.topic_title)
          IN  /\ MayHappen(outcome)
              /\ fs' = write_to_file(fs, filepath, spc.result, outcome)
              /\ hist' = [hist EXCEPT
                            !.writes = Append(@, LogWrite(filepath, spc.result, outcome))]
    /\ stl' = [stl EXCEPT
                 !.topic_listing = Append(@, stl.topic_title \o " | " \o stl.topic_url),
                 !.r = @ + 1]
    /\ pc' = "stl_row"
    /\ UNCHANGED <<site, call, exc, ms, spc, sfi>>

\* after the rows of the page: the next link
StlNextPage ==
    /\ pc = "stl_row"
    /\ stl.r > Len(stl.topic_rows)
    /\ ~NextLinkRaises(stl.soup)
    /\ stl' = [stl EXCEPT !.current_page_url = NextPageUrl(@, stl.soup)]
    /\ pc' = "stl_loop"
    /\ UNCHANGED <<site, call, exc, ms, spc, sfi, fs, hist>>

StlNextRaises ==
    /\ pc = "stl_row"
    /\ stl.r > Len(stl.topic_rows)
    /\ NextLinkRaises(stl.soup)
    /\ Raise("KeyError")
    /\ UNCHANGED <<site, call, ms, spc, stl, sfi, fs, hist>>

\* write_to_file(listing_filepath, "\n".join(topic_listing)), and return
StlWriteListing ==
    /\ pc = "stl_write"
    /\ \E outcome \in WriteOutcomes :
          LET listing_filepath == PathJoin(stl.current_path, "listing.txt")
              content == Join("\n", stl.topic_listing)
          IN  /\ MayHappen(outcome)
              /\ fs' = write_to_file(fs, listing_filepath, content, outcome)
              /\ hist' = [hist EXCEPT
                            !.writes = Append(@, LogWrite(listing_filepath, content, outcome))]
    /\ pc' = "sfi_sub"
    /\ UNCHANGED <<site, call, exc, ms, spc, stl, sfi>>

(***************************************************************************)
(* scrape_forum_index                                                      *)
(***************************************************************************)
\* row.select_one('td h4 a[href*="showforum="]'), as a sequence of at most
\* one anchor
MainForumLink(row) == First(SelectLinks(row.h4, "showforum="))

\* desc_span.select('a[href*="showforum="]') of the row's td, when it has a
\* span.desc
SubforumLinks(row) ==
    IF row.hasDesc THEN SelectLinks(row.desc, "showforum=") ELSE <<>>

\* as IsRecorded, but an entry matches only when its URL is the whole forum_url
IsRecordedExact(forum_url, all_forums_found) ==
    \E k \in 1..Len(all_forums_found) :
        LET f == all_forums_found[k]
            tail == " | " \o forum_url
        IN  Len(f) >= Len(tail) /\ SubSeq(f, Len(f) - Len(tail) + 1, Len(f)) = tail

\* any(forum_url in f for f in all_forums_found)
IsRecorded(forum_url, all_forums_found) ==
    \E k \in 1..Len(all_forums_found) : Contains(all_forums_found[k], forum_url)

ForumEntry(forum_name, forum_url) == forum_name \o " | " \o forum_url

SubforumEntry(subforum_name, subforum_url) ==
    "  - " \o subforum_name \o " | " \o subforum_url

\* soup = make_soup(url); if not soup: return []
SfiNoSoup ==
    /\ pc = "sfi_soup"
    /\ ~ms.result.ok
    /\ sfi' = [sfi EXCEPT !.all_forums = <<>>]
    /\ pc' = "main_ret"
    /\ UNCHANGED <<site, call, exc, ms, spc, stl, fs, hist>>

SfiSoup ==
    /\ pc = "sfi_soup"
    /\ ms.result.ok
    /\ sfi' = [sfi EXCEPT !.rows = Flatten(ms.result.page.tables),
                          !.i = 1,
                          !.all_forums_found = <<>>]
    /\ pc' = "sfi_row"
    /\ UNCHANGED <<site, call, exc, ms, spc, stl, fs, hist>>

\* return all_forums_found
SfiReturn ==
    /\ pc = "sfi_row"
    /\ sfi.i > Len(sfi.rows)
    /\ sfi' = [sfi EXCEPT !.all_forums = sfi.all_forums_found]
    /\ pc' = "main_ret"
    /\ UNCHANGED <<site, call, exc, ms, spc, stl, fs, hist>>

\* if not main_forum_link_tag: continue
SfiSkipRow ==
    /\ pc = "sfi_row"
    /\ sfi.i <= Len(sfi.rows)
    /\ MainForumLink(sfi.rows[sfi.i]) = <<>>
    /\ sfi' = [sfi EXCEPT !.i = @ + 1]
    /\ UNCHANGED <<site, call, pc, exc, ms, spc, stl, fs, hist>>

\* as SfiSkipDuplicate, but the sub-forum links of the skipped row are still
\* gone through
SfiSkipDuplicateThenSubs ==
    /\ pc = "sfi_row"
    /\ sfi.i <= Len(sfi.rows)
    /\ MainForumLink(sfi.rows[sfi.i]) # <<>>
    /\ IsRecorded(resolve_url(sfi.url, MainForumLink(sfi.rows[sfi.i])[1].href),
                  sfi.all_forums_found)
    /\ sfi' = [sfi EXCEPT !.j = 1]
    /\ pc' = "sfi_sub"
    /\ UNCHANGED <<site, call, exc, ms, spc, stl, fs, hist>>

\* if any(forum_url in f for f in all_forums_found): continue
SfiSkipDuplicate ==
    /\ pc = "sfi_row"
    /\ sfi.i <= Len(sfi.rows)
    /\ MainForumLink(sfi.rows[sfi.i]) # <<>>
    /\ IsRecorded(resolve_url(sfi.url, MainForumLink(sfi.rows[sfi.i])[1].href),
                  sfi.all_forums_found)
    /\ sfi' = [sfi EXCEPT !.i = @ + 1]
    /\ UNCHANGED <<site, call, pc, exc, ms, spc, stl, fs, hist>>

\* a new forum: recorded, then scrape_topic_listing(forum_url, forum_path)
SfiForum ==
    /\ pc = "sfi_row"
    /\ sfi.i <= Len(sfi.rows)
    /\ MainForumLink(sfi.rows[sfi.i]) # <<>>
    /\ LET main_forum_link_tag == MainForumLink(sfi.rows[sfi.i])[1]
           forum_name == Strip(main_forum_link_tag.text)
           forum_url == resolve_url(sfi.url, main_forum_link_tag.href)
           forum_path == PathJoin(sfi.current_path, sanitize_filename(forum_name))
       IN  /\ ~IsRecorded(forum_url, sfi.all_forums_found)
           /\ sfi' = [sfi EXCEPT
                        !.all_forums_found = Append(@, ForumEntry(forum_name, forum_url)),
                        !.forum_path = forum_path,
                        !.j = 1]
           /\ CallScrapeTopicListing(forum_url, forum_path)
    /\ UNCHANGED <<site, call, exc, ms, spc, fs>>

\* the sub-forum links of the row are done: next row
SfiSubDone ==
    /\ pc = "sfi_sub"
    /\ sfi.j > Len(SubforumLinks(sfi.rows[sfi.i]))
    /\ sfi' = [sfi EXCEPT !.i = @ + 1]
    /\ pc' = "sfi_row"
    /\ UNCHANGED <<site, call, exc, ms, spc, stl, fs, hist>>

\* if not subforum_name: continue
SfiSubSkipUnnamed ==
    /\ pc = "sfi_sub"
    /\ sfi.j <= Len(SubforumLinks(sfi.rows[sfi.i]))
    /\ Strip(SubforumLinks(sfi.rows[sfi.i])[sfi.j].text) = ""
    /\ sfi' = [sfi EXCEPT !.j = @ + 1]
    /\ UNCHANGED <<site, call, pc, exc, ms, spc, stl, fs, hist>>

\* a named sub-forum link: recorded, then scrape_topic_listing
SfiSubForum ==
    /\ pc = "sfi_sub"
    /\ sfi.j <= Len(SubforumLinks(sfi.rows[sfi.i]))
    /\ LET subforum_link == SubforumLinks(sfi.rows[sfi.i])[sfi.j]
           subforum_name == Strip(subforum_link.text)
           subforum_url == resolve_url(sfi.url, subforum_link.href)
           subforum_path == PathJoin(sfi.forum_path, sanitize_filename(subforum_name))
       IN  /\ subforum_name # ""
           /\ sfi' = [sfi EXCEPT
                        !.all_forums_found =
                            Append(@, SubforumEntry(subforum_name, subforum_url)),
                        !.j = @ + 1]
           /\ CallScrapeTopicListing(subforum_url, subforum_path)
    /\ UNCHANGED <<site, call, exc, ms, spc, fs>>

(***************************************************************************)
(* __main__                                                                *)
(***************************************************************************)
\* os.makedirs(OUTPUT_DIR, exist_ok=True); scrape_forum_index(...)
MainStart ==
    /\ pc = "main"
    /\ fs' = [fs EXCEPT !.dirs = @ \cup Ancestors(OUTPUT_DIR)]
    /\ sfi' = [sfi EXCEPT !.url = IndexURL, !.current_path = OUTPUT_DIR]
    /\ CallMakeSoup(IndexURL, "sfi_soup")
    /\ UNCHANGED <<site, call, exc, spc, stl, hist>>

\* os.makedirs(OUTPUT_DIR) raises OSError, which nothing catches
MainMakedirsRaises ==
    /\ pc = "main"
    /\ fs.fails < MaxFsFail
    /\ fs' = [fs EXCEPT !.fails = @ + 1]
    /\ Raise("OSError")
    /\ UNCHANGED <<site, call, ms, spc, stl, sfi, hist>>

\* if all_forums: write the top-level listing
MainWrite ==
    /\ pc = "main_ret"
    /\ sfi.all_forums # <<>>
    /\ \E outcome \in WriteOutcomes :
          LET forums_filepath == PathJoin(OUTPUT_DIR, "listing.txt")
              content == Join("\n", sfi.all_forums)
          IN  /\ MayHappen(outcome)
              /\ fs' = write_to_file(fs, forums_filepath, content, outcome)
              /\ hist' = [hist EXCEPT
                            !.writes = Append(@, LogWrite(forums_filepath, content, outcome))]
    /\ pc' = "done"
    /\ UNCHANGED <<site, call, exc, ms, spc, stl, sfi>>

MainNoForums ==
    /\ pc = "main_ret"
    /\ sfi.all_forums = <<>>
    /\ pc' = "done"
    /\ UNCHANGED <<site, call, exc, ms, spc, stl, sfi, fs, hist>>

Next ==
    \/ MainStart \/ MainMakedirsRaises \/ MainWrite \/ MainNoForums
    \/ MakeSoupSuccess \/ MakeSoupRetry \/ MakeSoupGiveUp
    \/ SfiNoSoup \/ SfiSoup \/ SfiReturn \/ SfiSkipRow \/ SfiSkipDuplicate
    \/ SfiForum \/ SfiSubDone \/ SfiSubSkipUnnamed \/ SfiSubForum
    \/ StlFetch \/ StlLoopEnd \/ StlBreak \/ StlSoup \/ StlSkipRow \/ StlTopic
    \/ StlTopicEmpty \/ StlTopicWrite \/ StlNextPage \/ StlNextRaises
    \/ StlWriteListing
    \/ SpcFetch \/ SpcReturn \/ SpcBreak \/ SpcPage \/ SpcPageRaises

Spec == Init /\ [][Next]_vars

(***************************************************************************)
(* resolve_url and sanitize_filename on their own: a call with arguments   *)
(* drawn from bounded sets; sanitize_filename is applied a second time to  *)
(* its own result.                                                         *)
(***************************************************************************)
\* longest name built from NameChars
MaxInputLen == 3
\* longest tail of a name that is longer than MaxNameLen
MaxFlank == 2

NameChars == {"a", " ", "\t", "_"} \cup InvalidChars
FlankChars == {"a", " ", "_", "/"}

\* the strings of at most n characters of chars
RECURSIVE Strings(_, _)
Strings(chars, n) ==
    IF n = 0 THEN {""}
    ELSE {""} \cup {c \o t : c \in chars, t \in Strings(chars, n - 1)}

RECURSIVE Repeat(_, _)
Repeat(c, n) ==
    IF n = 0 THEN ""
    ELSE IF n = 1 THEN c
    ELSE Repeat(c, n \div 2) \o Repeat(c, n - n \div 2)

\* names around MaxNameLen characters: shorter, as long and longer, before and
\* after the separators are collapsed
LongNames ==
    {h \o Repeat("a", MaxNameLen - 2) \o t :
        h \in Strings(FlankChars, 1), t \in Strings(FlankChars, MaxFlank)}

Names == Strings(NameChars, MaxInputLen) \cup LongNames \cup {"A   B"}

Bases ==
    {IndexURL, U("/web/f?showforum=1"), "http://gmc.yoyogames.com/forum/index.php"}

Hrefs ==
    {"", "http://gmc.yoyogames.com/index.php?showforum=1", "https://x.org/a",
     "httpd", "/web/2016/http://gmc.yoyogames.com/index.php?showtopic=1",
     "/web/", "/web", "/website/a", "/index.php?showforum=2", "?showtopic=3&st=20",
     "index.php?showforum=4", "web/a", "a/http"}

FnInit ==
    /\ site = <<>>
    /\ pc = "call"
    /\ FreshFrames
    /\ \/ \E name \in Names : call = Call("sanitize_filename", "", name)
       \/ \E base \in Bases, href \in Hrefs : call = Call("resolve_url", base, href)

\* resolve_url(base, href)
ApplyResolveUrl ==
    /\ pc = "call"
    /\ call.fn = "resolve_url"
    /\ call.returned = <<>>
    /\ call' = [call EXCEPT !.returned = <<resolve_url(call.base, call.arg)>>]
    /\ UNCHANGED <<site, pc, exc, ms, spc, stl, sfi, fs, hist>>

\* sanitize_filename(name)
ApplySanitizeFilename ==
    /\ pc = "call"
    /\ call.fn = "sanitize_filename"
    /\ call.returned = <<>>
    /\ call' = [call EXCEPT !.returned = <<sanitize_filename(call.arg)>>]
    /\ UNCHANGED <<site, pc, exc, ms, spc, stl, sfi, fs, hist>>

\* sanitize_filename(sanitize_filename(name))
ApplySanitizeFilenameAgain ==
    /\ pc = "call"
    /\ call.fn = "sanitize_filename"
    /\ Len(call.returned) = 1
    /\ call' = [call EXCEPT
                  !.returned = Append(@, sanitize_filename(call.returned[1]))]
    /\ UNCHANGED <<site, pc, exc, ms, spc, stl, sfi, fs, hist>>

FnNext == ApplyResolveUrl \/ ApplySanitizeFilename \/ ApplySanitizeFilenameAgain

FnSpec == FnInit /\ [][FnNext]_vars

(***************************************************************************)
(* Properties.                                                             *)
(***************************************************************************)
Last(seq) == seq[Len(seq)]

Urls(fetches) == [i \in 1..Len(fetches) |-> fetches[i].url]

\* the requests a make_soup call has issued
Gets(trace) == {i \in 1..Len(trace) : trace[i].op = "get"}

\* the program is inside the latest scrape_post_content call, or has just
\* returned from it
InTopicCall ==
    \/ pc \in {"spc_loop", "spc_soup", "stl_post"}
    \/ pc = "make_soup" /\ ms.ret = "spc_soup"

\* the make_soup calls made by the latest scrape_post_content call
TopicFetches ==
    IF hist.topics = <<>> THEN <<>>
    ELSE SubSeq(hist.fetches, Last(hist.topics).at + 1, Len(hist.fetches))

\* the pages reached from url along the next links of the site
RECURSIVE NextChain(_, _)
NextChain(url, fuel) ==
    IF fuel = 0 THEN <<>>
    ELSE <<url>> \o
         (IF /\ url \in DOMAIN site
             /\ site[url].next.tag
             /\ site[url].next.hasHref
             /\ site[url].next.href # ""
          THEN NextChain(resolve_url(url, site[url].next.href), fuel - 1)
          ELSE <<>>)

\* the post texts of the given pages of the site, page after page
RECURSIVE PostsOfPages(_)
PostsOfPages(urls) ==
    IF urls = <<>> THEN <<>>
    ELSE PagePostTexts(site[Head(urls)].posts) \o PostsOfPages(Tail(urls))

\* C2: one make_soup call issues at most 3 requests, issues none after a
\* successful one and then returns that page, returns None exactly when 3
\* requests have failed, and never ends the run with an exception.
C2_FetchAtMostThreeAttempts ==
    /\ [](/\ Cardinality(Gets(ms.trace)) <= 3
          /\ \A i \in Gets(ms.trace) : ms.trace[i].ok => i = Len(ms.trace)
          /\ (pc # "make_soup" /\ ms.ret # "") =>
                /\ ms.result.ok =>
                      /\ Last(ms.trace) = Get(TRUE)
                      /\ ms.result.page = site[ms.url]
                /\ ~ms.result.ok =>
                      /\ Cardinality(Gets(ms.trace)) = 3
                      /\ \A i \in Gets(ms.trace) : ~ms.trace[i].ok)
    /\ [][pc = "make_soup" => pc' \in {"make_soup", ms.ret}]_vars

C2_Witness ==
    /\ pc # "make_soup"
    /\ ms.result.ok
    /\ Cardinality(Gets(ms.trace)) = 3

\* C3: when the fetch of the k-th page of a topic returns None, no further
\* page of the topic is fetched and scrape_post_content returns the posts of
\* pages 1..k-1, in order.
C3_PartialPostsKept ==
    (InTopicCall /\ \E i \in 1..Len(TopicFetches) : ~TopicFetches[i].ok) =>
        LET k == Len(TopicFetches)
            before == SubSeq(Urls(TopicFetches), 1, k - 1)
        IN  /\ \A i \in 1..(k - 1) : TopicFetches[i].ok
            /\ pc \in {"spc_soup", "stl_post"}
            /\ Urls(TopicFetches) = SubSeq(NextChain(stl.topic_url, MaxFetch + 1), 1, k)
            /\ pc = "stl_post" => spc.result = Join("\n", PostsOfPages(before))

C3_Witness ==
    /\ pc = "stl_post"
    /\ Len(TopicFetches) = 3
    /\ ~TopicFetches[3].ok
    /\ spc.result # ""

\* C4: when every page of a topic's next chain p1..pn is fetched,
\* scrape_post_content fetches exactly p1, ..., pn, each once and in that
\* order, and returns the posts of p1, then p2, ..., then pn.
C4_AllPagesInOrder ==
    (pc = "stl_post" /\ \A i \in 1..Len(TopicFetches) : TopicFetches[i].ok) =>
        LET chain == NextChain(stl.topic_url, MaxFetch + 1)
        IN  /\ Urls(TopicFetches) = chain
            /\ \A i, j \in 1..Len(chain) : chain[i] = chain[j] => i = j
            /\ spc.result = Join("\n", PostsOfPages(chain))

C4_Witness ==
    /\ pc = "stl_post"
    /\ Len(TopicFetches) = 3
    /\ \A i \in 1..3 : TopicFetches[i].ok

\* the next link of a page leads on: the marker is there and its link target
\* is present and not empty
HasNextTarget(page) == page.next.tag /\ page.next.hasHref /\ page.next.href # ""

\* the write_to_file calls of the k-th scrape_topic_listing call
CrawlWrites(k) ==
    LET upto == IF k < Len(hist.crawls) THEN hist.crawls[k + 1].at
                ELSE Len(hist.writes)
        ws == SubSeq(hist.writes, hist.crawls[k].at + 1, upto)
    IN  IF ws # <<>> /\ Last(ws).by = "main_ret"
        THEN SubSeq(ws, 1, Len(ws) - 1) ELSE ws

\* the latest scrape_topic_listing call has ended, by a return or an exception
LastCrawlEnded == pc \in {"sfi_sub", "sfi_row", "main_ret", "done", "crashed"}

\* C1: whatever the fetch outcomes, no exception escapes the top-level crawl
\* (of a run in which the filesystem does not fail).
C1_NoExceptionEscapes == fs.fails = 0 => pc # "crashed"

\* C1, second half: a page whose fetch returned None ends only the pagination
\* of its own topic or forum: the topic returns to its listing page, which goes
\* on with the next row; the forum writes its listing and returns to the index.
C1_FailedPageEndsOnlyItsBranch ==
    [][/\ (pc = "spc_soup" /\ ~ms.result.ok) =>
            pc' = "stl_post" /\ stl' = stl /\ sfi' = sfi
       /\ (pc = "stl_post" /\ spc.result = "") =>
            pc' = "stl_row" /\ stl'.r = stl.r + 1 /\ sfi' = sfi
       /\ (pc = "stl_soup" /\ ~ms.result.ok) => pc' = "stl_write" /\ sfi' = sfi
       /\ pc = "stl_write" => pc' = "sfi_sub" /\ sfi' = sfi]_vars

\* C5: in both pagination loops, once a page is processed the loop goes on
\* to the resolved next URL if the page has a next marker with a present,
\* non-empty link target, and otherwise ends normally.
C5_NextLinkRule ==
    [][/\ (pc = "spc_soup" /\ ms.result.ok) =>
            /\ pc' = "spc_loop"
            /\ spc'.current_page_url =
                  IF HasNextTarget(ms.result.page)
                  THEN resolve_url(spc.current_page_url, ms.result.page.next.href)
                  ELSE ""
       /\ (pc = "stl_row" /\ stl.r > Len(stl.topic_rows)) =>
            /\ pc' = "stl_loop"
            /\ stl'.current_page_url =
                  IF HasNextTarget(stl.soup)
                  THEN resolve_url(stl.current_page_url, stl.soup.next.href)
                  ELSE ""]_vars

\* C6: for a topic row with a topic link, the topic file write is attempted
\* exactly when the listing line is recorded, and both exactly when
\* scrape_post_content returned non-empty content.
C6_FileIffListingLine ==
    [][pc = "stl_post" =>
         LET wrote == hist'.writes # hist.writes
             listed == stl'.topic_listing # stl.topic_listing
         IN  /\ wrote <=> listed
             /\ listed <=> spc.result # ""
             /\ wrote =>
                  /\ Len(hist'.writes) = Len(hist.writes) + 1
                  /\ Last(hist'.writes).content = spc.result
                  /\ Last(hist'.writes).path =
                        PathJoin(stl.current_path,
                                 stl.date_prefix \o "-"
                                    \o sanitize_filename(stl.topic_title) \o ".txt")
             /\ listed =>
                  stl'.topic_listing =
                      Append(stl.topic_listing, stl.topic_title \o " | " \o stl.topic_url)]_vars

C6_Witness ==
    /\ pc = "stl_row"
    /\ stl.r = 3
    /\ Len(stl.topic_listing) = 1
    /\ Len(CrawlWrites(Len(hist.crawls))) = 1
    /\ spc.result = ""

\* C7: when scrape_topic_listing has returned and no write has failed, the
\* topic files it wrote are as many as its listing lines: no topic's file
\* was overwritten by that of another topic.
C7_OneFilePerListingLine ==
    (/\ pc = "sfi_sub"
     /\ fs.fails = 0
     /\ \A i \in 1..Len(hist.writes) : hist.writes[i].done) =>
        LET ws == CrawlWrites(Len(hist.crawls))
        IN  Cardinality({ws[i].path : i \in {n \in 1..Len(ws) : ws[n].by = "stl_post"}})
                = Len(stl.topic_listing)

\* C8: every scrape_topic_listing call that has ended has written
\* listing.txt exactly once, as its last write after its topic files, with
\* the listing lines as content; a call still running has written none.
C8_ListingWrittenOnceLast ==
    \A k \in 1..Len(hist.crawls) :
        LET ws == CrawlWrites(k)
            ended == k < Len(hist.crawls) \/ LastCrawlEnded
            topicWrites == IF ended THEN SubSeq(ws, 1, Len(ws) - 1) ELSE ws
        IN  /\ \A i \in 1..Len(topicWrites) : topicWrites[i].by = "stl_post"
            /\ ended =>
                  /\ ws # <<>>
                  /\ Last(ws).by = "stl_write"
                  /\ Last(ws).path = PathJoin(hist.crawls[k].path, "listing.txt")
                  /\ k = Len(hist.crawls) =>
                        Last(ws).content = Join("\n", stl.topic_listing)

\* C9: a top-level forum link is skipped, neither recorded nor crawled,
\* exactly when its resolved URL is a substring of an entry recorded earlier
\* in the run; otherwise its entry is recorded and scrape_topic_listing is
\* called for it, once.
C9_TopLevelDedup ==
    [][(/\ pc = "sfi_row"
        /\ sfi.i <= Len(sfi.rows)
        /\ MainForumLink(sfi.rows[sfi.i]) # <<>>) =>
          LET tag == MainForumLink(sfi.rows[sfi.i])[1]
              url == resolve_url(sfi.url, tag.href)
              seen == \E k \in 1..Len(sfi.all_forums_found) :
                        \E a \in 1..(Len(sfi.all_forums_found[k]) - Len(url) + 1) :
                           SubSeq(sfi.all_forums_found[k], a, a + Len(url) - 1) = url
          IN  IF seen
              THEN /\ sfi'.all_forums_found = sfi.all_forums_found
                   /\ hist'.crawls = hist.crawls
                   /\ pc' = "sfi_row" /\ sfi'.i = sfi.i + 1
              ELSE /\ sfi'.all_forums_found =
                         Append(sfi.all_forums_found, Strip(tag.text) \o " | " \o url)
                   /\ Len(hist'.crawls) = Len(hist.crawls) + 1
                   /\ Last(hist'.crawls).url = url
                   /\ pc' = "stl_loop"]_vars

\* a top-level link has just been skipped although no recorded entry has
\* exactly its URL: the URL is a proper substring of a recorded one
C9_Witness ==
    /\ pc = "sfi_row"
    /\ sfi.i = 3
    /\ MainForumLink(sfi.rows[2]) # <<>>
    /\ Len(sfi.all_forums_found) = 2
    /\ LET url == resolve_url(sfi.url, MainForumLink(sfi.rows[2])[1].href)
       IN  /\ \E k \in 1..2 : Contains(sfi.all_forums_found[k], url)
           /\ \A k \in 1..2 : ~Contains(sfi.all_forums_found[k] \o "$", url \o "$")

\* C10: a sub-forum link whose resolved URL is a substring of an entry
\* already recorded is skipped: it is neither recorded nor crawled again.
C10_SubforumDedup ==
    [][(/\ pc = "sfi_sub"
        /\ sfi.j <= Len(SubforumLinks(sfi.rows[sfi.i]))
        /\ LET link == SubforumLinks(sfi.rows[sfi.i])[sfi.j]
           IN  /\ Strip(link.text) # ""
               /\ \E k \in 1..Len(sfi.all_forums_found) :
                     Contains(sfi.all_forums_found[k], resolve_url(sfi.url, link.href))) =>
          /\ sfi'.all_forums_found = sfi.all_forums_found
          /\ hist'.crawls = hist.crawls]_vars

\* C11: a failing directory creation or file write never ends the run: no
\* OSError propagates out of the program.
C11_FsFailureNeverFatal == exc # "OSError"

\* C11, second half: a write_to_file call whose directory creation or write
\* fails is abandoned and the crawl goes on where a successful write would.
C11_FailedWriteAbandoned ==
    [][Len(hist'.writes) > Len(hist.writes) =>
         /\ exc' = ""
         /\ pc' = (CASE pc = "stl_post" -> "stl_row"
                     [] pc = "stl_write" -> "sfi_sub"
                     [] pc = "main_ret" -> "done")
         /\ Len(hist'.writes) = Len(hist.writes) + 1]_vars

\* the row has no anchor in its topic cell whose href contains "showtopic="
NoTopicLink(row) ==
    \A k \in 1..Len(row.topic) : ~Contains(row.topic[k].href, "showtopic=")

\* C12: a topic row without a topic link causes no topic fetch, no file
\* write, no listing line and no exception; the listing goes on with the
\* next row of the page.
C12_RowWithoutLinkSkipped ==
    [][(/\ pc = "stl_row"
        /\ stl.r <= Len(stl.topic_rows)
        /\ NoTopicLink(stl.topic_rows[stl.r])) =>
          /\ hist' = hist
          /\ fs' = fs
          /\ stl'.topic_listing = stl.topic_listing
          /\ exc' = ""
          /\ pc' = "stl_row"
          /\ stl'.r = stl.r + 1
          /\ stl'.topic_rows = stl.topic_rows]_vars

\* the first row of a listing page had no topic link and the second row is
\* up next: the latest fetch is still that of the listing page
C12_Witness ==
    /\ pc = "stl_row"
    /\ stl.r = 2
    /\ Len(stl.topic_rows) = 2
    /\ NoTopicLink(stl.topic_rows[1])
    /\ ~NoTopicLink(stl.topic_rows[2])
    /\ stl.topic_listing = <<>>
    /\ Last(hist.fetches).url = stl.current_page_url

\* the politeness delays of a make_soup call
Pauses(trace) ==
    {i \in 1..Len(trace) : trace[i] = Sleep(REQUEST_DELAY_SECONDS)}

\* C13: within a make_soup call every request, the first and each retry, is
\* immediately preceded by one politeness delay of REQUEST_DELAY_SECONDS.
C13_PauseBeforeEveryRequest ==
    /\ \A i \in Gets(ms.trace) : i > 1 /\ ms.trace[i - 1] = Sleep(REQUEST_DELAY_SECONDS)
    /\ Cardinality(Pauses(ms.trace)) = Cardinality(Gets(ms.trace))

\* a call has returned after two retries: three requests and two back-offs
C13_Witness ==
    /\ pc # "make_soup"
    /\ Cardinality(Gets(ms.trace)) = Retries
    /\ Len(ms.trace) = 3 * Retries - 1
    /\ ms.result.ok

RECURSIVE Pow2(_)
Pow2(n) == IF n = 0 THEN 1 ELSE 2 * Pow2(n - 1)

\* the failed requests of a make_soup call
FailedGets(trace) == {i \in Gets(trace) : ~trace[i].ok}

\* C14: in every make_soup call the k-th failed request, k = 1, 2, is
\* followed by a back-off of InitialDelay * 2^(k-1) seconds (5, then 10),
\* whatever the earlier calls waited; the third failed request is followed by
\* no wait at all.
C14_BackoffDoubles ==
    \A i \in FailedGets(ms.trace) :
        LET k == Cardinality({j \in FailedGets(ms.trace) : j <= i})
        IN  IF k < Retries
            THEN /\ i < Len(ms.trace)
                 /\ ms.trace[i + 1] = Sleep(InitialDelay * Pow2(k - 1))
            ELSE i = Len(ms.trace)

\* a call other than the first of the run has failed three times
C14_Witness ==
    /\ pc # "make_soup"
    /\ ms.ret # ""
    /\ ~ms.result.ok
    /\ Cardinality(FailedGets(ms.trace)) = Retries
    /\ ms.trace[3] = Sleep(InitialDelay)
    /\ ms.trace[6] = Sleep(2 * InitialDelay)
    /\ Len(hist.fetches) > 1

\* sanitize_filename has been called and has returned
Sanitized == call.fn = "sanitize_filename" /\ call.returned # <<>>

\* C15: the result of sanitize_filename contains none of \ / * ? : " < > |
\* and has at most 100 characters; the empty name gives the empty name and
\* "A   B" gives "A_B".
C15_SanitizedNameIsSafe ==
    Sanitized =>
        /\ \A i \in 1..Len(call.returned[1]) :
              CharAt(call.returned[1], i) \notin
                  {"\\", "/", "*", "?", ":", "\"", "<", ">", "|"}
        /\ Len(call.returned[1]) <= 100
        /\ call.arg = "" => call.returned[1] = ""
        /\ call.arg = "A   B" => call.returned[1] = "A_B"

\* a name of more than 100 characters with an invalid character in its first
\* 100 has been sanitized
C15_Witness ==
    /\ Sanitized
    /\ Len(call.arg) > 100
    /\ CharAt(call.arg, 1) = "/"
    /\ Len(call.returned[1]) = 100

\* C16: sanitize_filename applied to its own result returns that result
\* unchanged, for every name.
C16_SanitizeIdempotent ==
    (call.fn = "sanitize_filename" /\ Len(call.returned) = 2) =>
        call.returned[2] = call.returned[1]

\* the second application has returned for a name of more than 100
\* characters that starts with a space and ends with an underscore, and that
\* the first application changed
C16_Witness ==
    /\ call.fn = "sanitize_filename"
    /\ Len(call.returned) = 2
    /\ Len(call.arg) > 100
    /\ CharAt(call.arg, 1) = " "
    /\ CharAt(call.arg, Len(call.arg)) = "_"
    /\ call.returned[1] # call.arg

\* C17: resolve_url returns an href that starts with "http" unchanged;
\* otherwise an href that starts with "/web/" gives
\* "https://web.archive.org" followed by the href; only the other hrefs are
\* joined to the base.  The first two results do not depend on the base.
C17_ResolveRules ==
    (call.fn = "resolve_url" /\ call.returned # <<>>) =>
        IF SubSeq(call.arg \o "    ", 1, 4) = "http"
        THEN call.returned[1] = call.arg
        ELSE IF SubSeq(call.arg \o "     ", 1, 5) = "/web/"
        THEN call.returned[1] = "https://web.archive.org" \o call.arg
        ELSE call.returned[1] = urljoin(call.base, call.arg)

\* an archive-absolute href has been resolved against a base of another
\* origin
C17_Witness ==
    /\ call.fn = "resolve_url"
    /\ call.returned # <<>>
    /\ SubSeq(call.arg \o "     ", 1, 5) = "/web/"
    /\ SubSeq(call.base, 1, 11) = "http://gmc."
    /\ call.returned[1] # urljoin(call.base, call.arg)

\* C18: both pagination loops go on to another fetch exactly when the page
\* just fetched was returned and has a next link to follow, and that fetch is
\* issued whatever was fetched before: nothing counts the pages or remembers
\* them, so a next chain that leads back to an earlier page is followed
\* round and round while its fetches succeed.
C18_PaginationEndsOnlyAtChainEnd ==
    [][/\ pc = "spc_soup" =>
            /\ (pc' = "spc_loop" /\ spc'.current_page_url # "")
                  <=> (ms.result.ok /\ HasNextTarget(ms.result.page))
            /\ pc' \in {"spc_loop", "stl_post", "crashed"}
       /\ pc = "spc_loop" =>
            IF spc.current_page_url # ""
            THEN /\ pc' = "make_soup"
                 /\ ms'.url = spc.current_page_url
                 /\ ms'.ret = "spc_soup"
            ELSE pc' = "stl_post"
       /\ pc = "stl_soup" => (pc' = "stl_row" <=> ms.result.ok)
       /\ (pc = "stl_soup" /\ ~ms.result.ok) => pc' = "stl_write"
       /\ (pc = "stl_row" /\ stl.r > Len(stl.topic_rows)) =>
            /\ (pc' = "stl_loop" /\ stl'.current_page_url # "")
                  <=> HasNextTarget(stl.soup)
            /\ pc' \in {"stl_loop", "crashed"}
       /\ pc = "stl_loop" =>
            IF stl.current_page_url # ""
            THEN /\ pc' = "make_soup"
                 /\ ms'.url = stl.current_page_url
                 /\ ms'.ret = "stl_soup"
            ELSE pc' = "stl_write"]_vars

\* a topic page whose next link leads to itself has been fetched three times
\* by one scrape_post_content call, and is about to be fetched again
C18_Witness ==
    /\ pc = "spc_loop"
    /\ Len(TopicFetches) >= 3
    /\ \A n \in 1..Len(TopicFetches) :
          TopicFetches[n].ok /\ TopicFetches[n].url = spc.current_page_url
    /\ spc.all_posts_text = PostsOfPages(Urls(TopicFetches))

\* a directory path without its trailing "/"
NormDir(p) ==
    IF p # "" /\ CharAt(p, Len(p)) = "/" THEN SubSeq(p, 1, Len(p) - 1) ELSE p

\* the writes of listing files, of forums and of the top level
ListingWrites ==
    {n \in 1..Len(hist.writes) : hist.writes[n].by \in {"stl_write", "main_ret"}}

\* C19: the scrape_topic_listing calls of a run have output directories
\* that differ from one another and from the output root, and no listing.txt
\* written in the run is written again later in the run.
C19_DistinctOutputDirs ==
    /\ \A a, b \in 1..Len(hist.crawls) :
          a # b => NormDir(hist.crawls[a].path) # NormDir(hist.crawls[b].path)
    /\ \A a \in 1..Len(hist.crawls) : NormDir(hist.crawls[a].path) # OUTPUT_DIR
    /\ \A m, n \in ListingWrites :
          (m < n /\ hist.writes[m].done /\ hist.writes[n].done) =>
              hist.writes[m].path # hist.writes[n].path

\* the step records a sub-forum entry or calls scrape_topic_listing for a
\* sub-forum
SubforumStep ==
    \/ /\ Len(sfi'.all_forums_found) > Len(sfi.all_forums_found)
       /\ StartsWith(Last(sfi'.all_forums_found), "  - ")
    \/ pc = "sfi_sub" /\ hist'.crawls # hist.crawls

\* C20: a row whose top-level forum link is skipped as a duplicate is left
\* at once, its sub-forum links neither recorded nor crawled; a sub-forum is
\* recorded and crawled only in a row whose top-level forum was recorded, and
\* only after the scrape_topic_listing call of that forum has returned.
C20_SubforumsFollowTheirParent ==
    [][/\ (/\ pc = "sfi_row"
           /\ sfi.i <= Len(sfi.rows)
           /\ MainForumLink(sfi.rows[sfi.i]) # <<>>
           /\ \E k \in 1..Len(sfi.all_forums_found) :
                 Contains(sfi.all_forums_found[k],
                          resolve_url(sfi.url, MainForumLink(sfi.rows[sfi.i])[1].href))) =>
            /\ pc' = "sfi_row"
            /\ sfi'.i = sfi.i + 1
            /\ sfi'.all_forums_found = sfi.all_forums_found
            /\ hist'.crawls = hist.crawls
       /\ SubforumStep =>
            /\ pc = "sfi_sub"
            /\ sfi'.i = sfi.i
            /\ MainForumLink(sfi.rows[sfi.i]) # <<>>
            /\ LET parent == MainForumLink(sfi.rows[sfi.i])[1]
                   url == resolve_url(sfi.url, parent.href)
               IN  /\ \E k \in 1..Len(sfi.all_forums_found) :
                         sfi.all_forums_found[k] = Strip(parent.text) \o " | " \o url
                   /\ \E k \in 1..Len(hist.crawls) :
                         /\ hist.crawls[k].url = url
                         /\ CrawlWrites(k) # <<>>
                         /\ Last(CrawlWrites(k)).by = "stl_write"]_vars

\* the row before the current one has a named sub-forum link, its top-level
\* link was skipped, and none of its sub-forum links was recorded or crawled
C20_Witness ==
    /\ pc = "sfi_row"
    /\ sfi.i > 1
    /\ sfi.i <= Len(sfi.rows)
    /\ LET row == sfi.rows[sfi.i - 1]
       IN  /\ MainForumLink(row) # <<>>
           /\ \A k \in 1..Len(sfi.all_forums_found) :
                 sfi.all_forums_found[k] #
                     ForumEntry(Strip(MainForumLink(row)[1].text),
                                resolve_url(sfi.url, MainForumLink(row)[1].href))
           /\ \E n \in 1..Len(SubforumLinks(row)) :
                 Strip(SubforumLinks(row)[n].text) # ""
           /\ \A n \in 1..Len(SubforumLinks(row)) :
                 LET url == resolve_url(sfi.url, SubforumLinks(row)[n].href)
                 IN  /\ \A k \in 1..Len(sfi.all_forums_found) :
                           ~Contains(sfi.all_forums_found[k], url)
                     /\ \A k \in 1..Len(hist.crawls) : hist.crawls[k].url # url
====
